---- MODULE Spec2Model ----
(***************************************************************************)
(* Selection resolution (internal/exec/selected) and static cost          *)
(* estimation (internal/validation) of graphql-go, over the schema of the  *)
(* cost tests.                                                             *)
(***************************************************************************)
EXTENDS Integers, Sequences, FiniteSets, TLC

VARIABLES
    e,          \* name of the enclosing resolvable.Object of the call
    sels,       \* []query.Selection handed to the call
    Vars,       \* Request.Vars
    DisableIntrospection, \* Request.DisableIntrospection
    Errs,       \* Request.Errs
    Mu,         \* Request.Mu: 0 when free, else the worker holding it
    plan,       \* []Selection returned by the call
    skipped,    \* bool returned by skipByDirective
    cost,       \* int returned by estimateCost
    call,       \* the function of the package that was called
    ret,        \* the return statement the call left by
    pc,         \* position of the resolving call stack
    wpc,        \* position of each executor worker inside AddError
    wbuf,       \* the slice header each worker read in append
    werr,       \* errors each worker still has to report
    wsent       \* errors each worker has passed to AddError so far

vars == <<e, sels, Vars, DisableIntrospection, Errs, Mu, plan, skipped, cost,
          call, ret, pc, wpc, wbuf, werr, wsent>>

(***************************************************************************)
(* Raw argument values (common.Literal / common.Variable)                  *)
(***************************************************************************)
BoolV(b) == [t |-> "Boolean", n |-> IF b THEN 1 ELSE 0, s |-> ""]
IntV(k) == [t |-> "Int", n |-> k, s |-> ""]
StrV(x) == [t |-> "String", n |-> 0, s |-> x]
NullV == [t |-> "Null", n |-> 0, s |-> ""]
VarV(x) == [t |-> "Variable", n |-> 0, s |-> x]

\* arg.Value.Value(r.Vars): a literal is itself, a variable is looked up
Value(v, vs) ==
    IF v.t = "Variable"
    THEN IF v.s \in DOMAIN vs THEN vs[v.s] ELSE NullV
    ELSE v

\* packer.ValuePacker{ValueType: bool}.Pack
PackBool(v) == [ok |-> v.t = "Boolean", b |-> (v.t = "Boolean" /\ v.n = 1)]

\* packer.ValuePacker{ValueType: string}.Pack
PackString(v) == [ok |-> v.t = "String", s |-> IF v.t = "String" THEN v.s ELSE ""]

(***************************************************************************)
(* The schema of the cost tests; SimpleQuery and SimpleCharacter are the    *)
(* Query and Character of the schema without multipliers                   *)
(***************************************************************************)
NoType == "<nil>"

TypeKind ==
    [Query |-> "Object", Friend |-> "Interface", Enemy |-> "Object",
     FriendOrEnemy |-> "Union", FriendConnection |-> "Object",
     Character |-> "Object", __Schema |-> "Object", __Type |-> "Object",
     SimpleQuery |-> "Object", SimpleCharacter |-> "Object"]

TypeNames == DOMAIN TypeKind

\* schema.Object.Interfaces
Interfaces ==
    [Query |-> <<>>, Friend |-> <<>>, Enemy |-> <<"Friend">>,
     FriendOrEnemy |-> <<>>, FriendConnection |-> <<>>,
     Character |-> <<"Friend">>, __Schema |-> <<>>, __Type |-> <<>>,
     SimpleQuery |-> <<>>, SimpleCharacter |-> <<>>]

\* schema.Interface.PossibleTypes / schema.Union.PossibleTypes
PossibleTypes ==
    [Query |-> <<>>, Friend |-> <<"Enemy", "Character">>, Enemy |-> <<>>,
     FriendOrEnemy |-> <<"Character", "Enemy">>, FriendConnection |-> <<>>,
     Character |-> <<>>, __Schema |-> <<>>, __Type |-> <<>>,
     SimpleQuery |-> <<>>, SimpleCharacter |-> <<>>]

Range(q) == {q[i] : i \in DOMAIN q}

\* r.Schema.Resolve(name): the type of that name, or nil
Resolve(name) == IF name \in TypeNames THEN name ELSE NoType

\* the type switches of applyFragment: the concrete objects a type stands for
ApplicableTypesOf(t) ==
    IF t = NoType THEN {}
    ELSE IF TypeKind[t] = "Object" THEN {t}
    ELSE Range(PossibleTypes[t])

\* resolvable.Resolvable: Object, List or Scalar
ObjectExec(n) == [kind |-> "Object", name |-> n]
ListExec(x) == [kind |-> "List", elem |-> x]
ScalarExec == [kind |-> "Scalar"]

\* resolvable.Field descriptors: the value type a field resolves to, the
\* declared arguments, and the resolver's shape (HasContext, HasError). The
\* resolver of Character.name takes a context and that of Enemy.weapon can
\* return an error; the others do neither.
FieldDef(vt, as, ctx, err) ==
    [ValueExec |-> vt, Args |-> as, HasContext |-> ctx, HasError |-> err]

Fields ==
    [Query |-> [characters |-> FieldDef(ListExec(ObjectExec("FriendOrEnemy")), {}, FALSE, FALSE)],
     Friend |-> [name |-> FieldDef(ScalarExec, {}, FALSE, FALSE)],
     Enemy |-> [name |-> FieldDef(ScalarExec, {}, FALSE, FALSE),
                weapon |-> FieldDef(ScalarExec, {}, FALSE, TRUE)],
     FriendOrEnemy |-> <<>>,
     FriendConnection |-> [totalCount |-> FieldDef(ScalarExec, {}, FALSE, FALSE),
                           nodes |-> FieldDef(ListExec(ObjectExec("Character")), {}, FALSE, FALSE)],
     Character |-> [id |-> FieldDef(ScalarExec, {}, FALSE, FALSE),
                    name |-> FieldDef(ScalarExec, {}, TRUE, FALSE),
                    friends |-> FieldDef(ListExec(ObjectExec("Friend")), {"first", "last"}, FALSE, FALSE),
                    bestFriends |-> FieldDef(ObjectExec("FriendConnection"), {"first"}, FALSE, FALSE)],
     __Schema |-> [queryType |-> FieldDef(ObjectExec("__Type"), {}, FALSE, FALSE)],
     __Type |-> [name |-> FieldDef(ScalarExec, {}, FALSE, FALSE)],
     SimpleQuery |-> [characters |-> FieldDef(ListExec(ObjectExec("SimpleCharacter")), {}, FALSE, FALSE)],
     SimpleCharacter |-> [id |-> FieldDef(ScalarExec, {}, FALSE, FALSE),
                          name |-> FieldDef(ScalarExec, {}, FALSE, FALSE),
                          friends |-> FieldDef(ListExec(ObjectExec("SimpleCharacter")), {}, FALSE, FALSE)]]

\* resolvable.Object.TypeAssertions: one per possible type of an interface or
\* union, none on an object
TypeAssertions(t) == Range(PossibleTypes[t])

\* fe.ArgsPacker != nil: a packer exists exactly for a field declaring arguments
HasArgsPacker(fe) == fe.Args # {}

\* fe.ArgsPacker.Pack(args): every supplied argument must be an Int or null
ArgsPack(fe, args) ==
    [ok |-> \A a \in DOMAIN args : args[a].t \in {"Int", "Null"},
     v |-> [a \in fe.Args |-> IF a \in DOMAIN args THEN args[a] ELSE NullV]]

(***************************************************************************)
(* The query document                                                      *)
(***************************************************************************)
Directive(name, v) == [Name |-> name, If |-> v]
Argument(name, v) == [Name |-> name, Value |-> v]

Field(name, alias, args, dirs, ss) ==
    [kind |-> "Field", Name |-> name, Alias |-> alias, On |-> "",
     Arguments |-> args, Directives |-> dirs, Selections |-> ss]
InlineFragment(on, dirs, ss) ==
    [kind |-> "InlineFragment", Name |-> "", Alias |-> "", On |-> on,
     Arguments |-> <<>>, Directives |-> dirs, Selections |-> ss]
FragmentSpread(name, dirs) ==
    [kind |-> "FragmentSpread", Name |-> name, Alias |-> "", On |-> "",
     Arguments |-> <<>>, Directives |-> dirs, Selections |-> <<>>]

Leaf(name) == Field(name, name, <<>>, <<>>, <<>>)

\* r.Doc.Fragments: the named fragments of the test documents
DocFragments ==
    [friendsFields |-> [On |-> "Character", Selections |-> <<Leaf("id"), Leaf("name")>>],
     enemyFields |-> [On |-> "Enemy", Selections |-> <<Leaf("name"), Leaf("weapon")>>],
     FriendFields |-> [On |-> "Friend", Selections |-> <<Leaf("name")>>]]

\* common.DirectiveList.Get: the first directive of that name, or nil
RECURSIVE DirectiveGet(_, _, _)
DirectiveGet(dirs, name, i) ==
    IF i > Len(dirs) THEN [found |-> FALSE, If |-> NullV]
    ELSE IF dirs[i].Name = name THEN [found |-> TRUE, If |-> dirs[i].If]
    ELSE DirectiveGet(dirs, name, i + 1)

\* common.ArgumentList.MustGet
RECURSIVE MustGet(_, _, _)
MustGet(args, name, i) ==
    IF i > Len(args) THEN NullV
    ELSE IF args[i].Name = name THEN args[i].Value
    ELSE MustGet(args, name, i + 1)

(***************************************************************************)
(* The selection plan                                                      *)
(***************************************************************************)
NoArgs == [a \in {} |-> NullV]

SchemaField(owner, name, alias, args, packed, ss, async, fixed) ==
    [kind |-> "SchemaField", Owner |-> owner, Name |-> name, Alias |-> alias,
     Args |-> args, PackedArgs |-> packed, Sels |-> ss, Async |-> async,
     FixedResult |-> fixed]
TypeAssertion(target, ss) ==
    [kind |-> "TypeAssertion", Owner |-> target, Name |-> "", Alias |-> "",
     Args |-> NoArgs, PackedArgs |-> NoArgs, Sels |-> ss, Async |-> FALSE,
     FixedResult |-> ""]
TypenameField(obj, alias) ==
    [kind |-> "TypenameField", Owner |-> obj, Name |-> "", Alias |-> alias,
     Args |-> NoArgs, PackedArgs |-> NoArgs, Sels |-> <<>>, Async |-> FALSE,
     FixedResult |-> ""]

ErrSkip == "could not unmarshal the if of @skip"
ErrInclude == "could not unmarshal the if of @include"
ErrTypeName == "could not unmarshal the name of __type"
ErrArgs == "could not unmarshal the arguments"

\* what a call leaves behind: the selections it returns, the errors it added
\* to the sink in order, whether it panicked instead of returning, and the
\* return statement it left by, with the index of the selection it was at
Ret(ss, errs, via, at) ==
    [sels |-> ss, errs |-> errs, panic |-> FALSE, via |-> via, at |-> at]
Panic(errs) ==
    [sels |-> <<>>, errs |-> errs, panic |-> TRUE, via |-> "panic", at |-> 0]

RECURSIVE HasAsyncSel(_)
HasAsyncSel(ss) ==
    \E i \in DOMAIN ss :
        \/ ss[i].kind = "SchemaField" /\ ss[i].Async
        \/ ss[i].kind = "TypeAssertion" /\ HasAsyncSel(ss[i].Sels)

\* the fragment's selections put in front of what was built
SpliceInFront(flattenedSels, fragSels) == fragSels \o flattenedSels

\* append(flattenedSels, applyFragment(...)...)
Splice(flattenedSels, fragSels) == flattenedSels \o fragSels

\* the Async flag without the resolver's error return
AsyncOfNoError(fe, fieldSels) ==
    fe.HasContext \/ HasArgsPacker(fe) \/ HasAsyncSel(fieldSels)

\* the Async flag of an ordinary field
AsyncOf(fe, fieldSels) ==
    fe.HasContext \/ HasArgsPacker(fe) \/ fe.HasError \/ HasAsyncSel(fieldSels)

\* the guard of the meta-fields without the request's setting
IntrospectionAlways(r) == TRUE

\* !r.DisableIntrospection, the guard of every meta-field
IntrospectionEnabled(r) == ~r.DisableIntrospection

\* frag.On.Name != "" && frag.On.Name != e.Name
NeedsAssertion(frag, en) == frag.On # "" /\ frag.On # en

\* skipByDirective with a packing failure read as an exclusion
skipByDirectiveOnError(r, directives) ==
    LET sd == DirectiveGet(directives, "skip", 1)
        sp == PackBool(Value(sd.If, r.Vars))
        id == DirectiveGet(directives, "include", 1)
        ip == PackBool(Value(id.If, r.Vars))
    IN  IF sd.found /\ ~sp.ok THEN [skip |-> TRUE, errs |-> <<ErrSkip>>]
        ELSE IF sd.found /\ sp.b THEN [skip |-> TRUE, errs |-> <<>>]
        ELSE IF id.found /\ ~ip.ok THEN [skip |-> TRUE, errs |-> <<ErrInclude>>]
        ELSE [skip |-> id.found /\ ~ip.b, errs |-> <<>>]

\* skipByDirective looking at @include only where there is no @skip
skipByDirectiveElse(r, directives) ==
    LET sd == DirectiveGet(directives, "skip", 1)
        sp == PackBool(Value(sd.If, r.Vars))
        id == DirectiveGet(directives, "include", 1)
        ip == PackBool(Value(id.If, r.Vars))
    IN  IF sd.found
        THEN [skip |-> sp.ok /\ sp.b, errs |-> IF sp.ok THEN <<>> ELSE <<ErrSkip>>]
        ELSE [skip |-> id.found /\ ip.ok /\ ~ip.b,
              errs |-> IF id.found /\ ~ip.ok THEN <<ErrInclude>> ELSE <<>>]

skipByDirective(r, directives) ==
    LET sd == DirectiveGet(directives, "skip", 1)
        sp == PackBool(Value(sd.If, r.Vars))
        se == IF sd.found /\ ~sp.ok THEN <<ErrSkip>> ELSE <<>>
        id == DirectiveGet(directives, "include", 1)
        ip == PackBool(Value(id.If, r.Vars))
        ie == IF id.found /\ ~ip.ok THEN <<ErrInclude>> ELSE <<>>
    IN  IF sd.found /\ sp.ok /\ sp.b THEN [skip |-> TRUE, errs |-> se]
        ELSE IF id.found /\ ip.ok /\ ~ip.b THEN [skip |-> TRUE, errs |-> se \o ie]
        ELSE [skip |-> FALSE, errs |-> se \o ie]

\* the map built from field.Arguments
RECURSIVE ArgsMap(_, _, _)
ArgsMap(args, vs, i) ==
    IF i = 0 THEN NoArgs
    ELSE LET m == ArgsMap(args, vs, i - 1)
             k == args[i].Name
         IN  [a \in DOMAIN m \cup {k} |->
                 IF a = k THEN Value(args[i].Value, vs) ELSE m[a]]

RECURSIVE applySelectionSetFrom(_, _, _, _, _, _)
RECURSIVE applyFragment(_, _, _)
RECURSIVE applyFragmentIface(_, _, _, _, _, _, _)
RECURSIVE applyField(_, _, _)

applySelectionSet(r, en, ss) == applySelectionSetFrom(r, en, ss, 1, <<>>, <<>>)

\* the for loop of applySelectionSet from selection i on, with flattenedSels
\* and the errors added so far
applySelectionSetFrom(r, en, ss, i, flattenedSels, errs) ==
    IF i > Len(ss) THEN Ret(flattenedSels, errs, "end", i)
    ELSE
    LET sel == ss[i]
        d == skipByDirective(r, sel.Directives)
        errs1 == errs \o d.errs
    IN
    IF d.skip THEN applySelectionSetFrom(r, en, ss, i + 1, flattenedSels, errs1)
    ELSE IF sel.kind = "Field" THEN
        IF sel.Name = "__typename" THEN
            IF IntrospectionEnabled(r)
            THEN applySelectionSetFrom(r, en, ss, i + 1,
                     Append(flattenedSels, TypenameField(en, sel.Alias)), errs1)
            ELSE applySelectionSetFrom(r, en, ss, i + 1, flattenedSels, errs1)
        ELSE IF sel.Name = "__schema" THEN
            IF IntrospectionEnabled(r)
            THEN LET sub == applySelectionSet(r, "__Schema", sel.Selections)
                 IN  IF sub.panic THEN Panic(errs1 \o sub.errs)
                     ELSE applySelectionSetFrom(r, en, ss, i + 1,
                              Append(flattenedSels,
                                  SchemaField("Meta", "__schema", sel.Alias, NoArgs,
                                      NoArgs, sub.sels, TRUE, "schema")),
                              errs1 \o sub.errs)
            ELSE applySelectionSetFrom(r, en, ss, i + 1, flattenedSels, errs1)
        ELSE IF sel.Name = "__type" THEN
            IF IntrospectionEnabled(r)
            THEN LET p == PackString(Value(MustGet(sel.Arguments, "name", 1), r.Vars))
                 IN  IF ~p.ok THEN Ret(<<>>, Append(errs1, ErrTypeName), "typepack", i)
                     ELSE IF p.s \notin TypeNames THEN Ret(<<>>, errs1, "typeunknown", i)
                     ELSE LET sub == applySelectionSet(r, "__Type", sel.Selections)
                          IN  IF sub.panic THEN Panic(errs1 \o sub.errs)
                              ELSE applySelectionSetFrom(r, en, ss, i + 1,
                                       Append(flattenedSels,
                                           SchemaField("Meta", "__type", sel.Alias,
                                               NoArgs, NoArgs, sub.sels, TRUE, p.s)),
                                       errs1 \o sub.errs)
            ELSE applySelectionSetFrom(r, en, ss, i + 1, flattenedSels, errs1)
        ELSE
            LET fe == Fields[en][sel.Name]
                args == IF HasArgsPacker(fe)
                        THEN ArgsMap(sel.Arguments, r.Vars, Len(sel.Arguments))
                        ELSE NoArgs
                pk == ArgsPack(fe, args)
            IN  IF HasArgsPacker(fe) /\ ~pk.ok
                THEN Ret(flattenedSels, Append(errs1, ErrArgs), "args", i)
                ELSE LET sub == applyField(r, fe.ValueExec, sel.Selections)
                     IN  IF sub.panic THEN Panic(errs1 \o sub.errs)
                         ELSE applySelectionSetFrom(r, en, ss, i + 1,
                                  Append(flattenedSels,
                                      SchemaField(en, sel.Name, sel.Alias, args,
                                          IF HasArgsPacker(fe) THEN pk.v ELSE NoArgs,
                                          sub.sels,
                                          AsyncOf(fe, sub.sels),
                                          "")),
                                  errs1 \o sub.errs)
    ELSE
        LET frag == IF sel.kind = "InlineFragment"
                    THEN [On |-> sel.On, Selections |-> sel.Selections]
                    ELSE DocFragments[sel.Name]
            sub == applyFragment(r, en, frag)
        IN  IF sub.panic THEN Panic(errs1 \o sub.errs)
            ELSE applySelectionSetFrom(r, en, ss, i + 1, Splice(flattenedSels, sub.sels),
                     errs1 \o sub.errs)

\* the loops of applyFragment over iface.PossibleTypes (index i) and over the
\* Interfaces of each (index j)
applyFragmentIface(r, en, frag, i, j, selections, errs) ==
    LET pts == PossibleTypes[frag.On]
    IN
    IF i > Len(pts) THEN Ret(selections, errs, "end", 0)
    ELSE IF j > Len(Interfaces[pts[i]])
    THEN applyFragmentIface(r, en, frag, i + 1, 1, selections, errs)
    ELSE IF Interfaces[pts[i]][j] # frag.On
    THEN applyFragmentIface(r, en, frag, i, j + 1, selections, errs)
    ELSE IF pts[i] \notin (ApplicableTypesOf(en) \cap ApplicableTypesOf(Resolve(frag.On)))
    THEN applyFragmentIface(r, en, frag, i, j + 1, selections, errs)
    ELSE IF pts[i] \notin TypeAssertions(en) THEN Panic(errs)
    ELSE LET sub == applySelectionSet(r, pts[i], frag.Selections)
         IN  IF sub.panic THEN Panic(errs \o sub.errs)
             ELSE applyFragmentIface(r, en, frag, i, j + 1,
                      Append(selections, TypeAssertion(pts[i], sub.sels)),
                      errs \o sub.errs)

applyFragment(r, en, frag) ==
    LET applicableParentTypes == ApplicableTypesOf(en)
        fragmentType == Resolve(frag.On)
        applicableFragmentTypes == ApplicableTypesOf(fragmentType)
        applicableTypes == applicableFragmentTypes \cap applicableParentTypes
    IN
    IF en \notin TypeNames THEN Panic(<<>>)
    ELSE IF applicableTypes = {} THEN Panic(<<>>)
    ELSE IF NeedsAssertion(frag, en) THEN
        IF TypeKind[fragmentType] = "Interface"
        THEN applyFragmentIface(r, en, frag, 1, 1, <<>>, <<>>)
        ELSE IF frag.On \notin applicableTypes THEN Panic(<<>>)
        ELSE IF frag.On \notin TypeAssertions(en) THEN Panic(<<>>)
        ELSE LET sub == applySelectionSet(r, frag.On, frag.Selections)
             IN  IF sub.panic THEN Panic(sub.errs)
                 ELSE Ret(<<TypeAssertion(frag.On, sub.sels)>>, sub.errs, "end", 0)
    ELSE applySelectionSet(r, en, frag.Selections)

applyField(r, x, ss) ==
    IF x.kind = "Object" THEN applySelectionSet(r, x.name, ss)
    ELSE IF x.kind = "List" THEN applyField(r, x.elem, ss)
    ELSE Ret(<<>>, <<>>, "end", 0)

\* ApplyOperation: the schema of the tests has the query entry point only
ApplyOperation(r, op) == applySelectionSet(r, "Query", op)

(***************************************************************************)
(* The requests explored: query documents that validation lets through for *)
(* the schema                                                              *)
(***************************************************************************)
\* longest selection set written out in a query
MaxSels == 3

SimpleTypes == {"SimpleQuery", "SimpleCharacter"}

UserTypes == TypeNames \ ({"__Schema", "__Type"} \cup SimpleTypes)

IfValues == {BoolV(TRUE), BoolV(FALSE), VarV("skip")}
VarValues == {NullV, BoolV(TRUE)}
ArgValues == {IntV(2), StrV("x")}
TypeArgValues == {StrV("Enemy"), StrV("Nope"), NullV}

DirectiveLists ==
    {<<Directive(n, v)>> : n \in {"skip", "include"}, v \in IfValues}
    \cup {<<Directive("skip", v), Directive("include", w)>> : v, w \in IfValues}

\* a selection without directives and children, and the type its children
\* are validated against ("" when it takes none)
SelHead(node, child) == [node |-> node, child |-> child]

FieldHeads(t) ==
    UNION {
        LET fe == Fields[t][f]
        IN  IF fe.ValueExec.kind = "Scalar" THEN {SelHead(Leaf(f), "")}
            ELSE LET ot == IF fe.ValueExec.kind = "List"
                           THEN fe.ValueExec.elem.name ELSE fe.ValueExec.name
                 IN  {SelHead(Field(f, f, <<>>, <<>>, <<>>), ot)}
                     \cup {SelHead(Field(f, f, <<Argument("first", v)>>, <<>>, <<>>), ot) :
                              v \in {v \in ArgValues : "first" \in fe.Args}}
        : f \in DOMAIN Fields[t]}

MetaHeads(t) ==
    {SelHead(Leaf("__typename"), "")}
    \cup IF t = "Query"
         THEN {SelHead(Field("__schema", "__schema", <<>>, <<>>, <<>>), "__Schema")}
              \cup {SelHead(Field("__type", "__type", <<Argument("name", v)>>, <<>>, <<>>),
                            "__Type") : v \in TypeArgValues}
         ELSE {}

Overlap(t, u) == ApplicableTypesOf(t) \cap ApplicableTypesOf(u) # {}

FragmentHeads(t) ==
    IF t \notin UserTypes THEN {}
    ELSE {SelHead(InlineFragment("", <<>>, <<>>), t)}
         \cup {SelHead(InlineFragment(u, <<>>, <<>>), u) :
                  u \in {u \in UserTypes : Overlap(t, u)}}
         \cup {SelHead(FragmentSpread(n, <<>>), "") :
                  n \in {n \in DOMAIN DocFragments : Overlap(t, DocFragments[n].On)}}

Heads(t) == FieldHeads(t) \cup MetaHeads(t) \cup FragmentHeads(t)

With(node, dirs, ss) == [node EXCEPT !.Directives = dirs, !.Selections = ss]

\* the shortest selection sets on a type: one scalar field, or __typename
\* where the type has none of its own
OneField(t) ==
    LET own == {f \in DOMAIN Fields[t] : Fields[t][f].ValueExec.kind = "Scalar"}
    IN  IF own = {} THEN {<<Leaf("__typename")>>} ELSE {<<Leaf(f)>> : f \in own}

\* the selections on a type whose children, where they take any, are one field
Pool(t) ==
    UNION {IF h.child = "" THEN {h.node}
           ELSE {With(h.node, <<>>, c) : c \in OneField(h.child)}
           : h \in Heads(t)}

\* the selections on a type whose children are a selection set over the pool
\* of the child type
Nested(t) ==
    UNION {IF h.child = "" THEN {}
           ELSE UNION {{With(h.node, <<>>, c) : c \in [1..n -> Pool(h.child)]}
                       : n \in 2..(MaxSels - 1)}
           : h \in Heads(t)}

Around == {<<>>, <<Leaf("__typename")>>}

RECURSIVE UsesVariable(_)
UsesVariable(ss) ==
    \E i \in DOMAIN ss :
        \/ \E j \in DOMAIN ss[i].Directives : ss[i].Directives[j].If.t = "Variable"
        \/ UsesVariable(ss[i].Selections)

RECURSIVE UsesMeta(_)
UsesMeta(ss) ==
    \E i \in DOMAIN ss :
        \/ ss[i].kind = "Field"
           /\ ss[i].Name \in {"__typename", "__schema", "__type"}
        \/ UsesMeta(ss[i].Selections)
        \/ ss[i].kind = "FragmentSpread" /\ UsesMeta(DocFragments[ss[i].Name].Selections)

Request == [Vars |-> Vars, DisableIntrospection |-> DisableIntrospection]

NoWorkers == [w \in {} |-> 0]

NoReturn == [via |-> "", at |-> 0]

InitSel ==
    /\ e \in UserTypes
    /\ \/ \E n \in 1..MaxSels : sels \in [1..n -> Pool(e)]
       \/ \E x \in Nested(e) : sels = <<x>>
       \/ \E x \in Pool(e), ds \in DirectiveLists, pre \in Around, post \in Around :
              sels = pre \o <<With(x, ds, x.Selections)>> \o post
    /\ Vars \in [{"skip"} -> VarValues]
    /\ (~UsesVariable(sels) => Vars.skip = NullV)
    /\ DisableIntrospection \in BOOLEAN
    /\ (~UsesMeta(sels) => DisableIntrospection = FALSE)
    /\ Errs = <<>>
    /\ Mu = 0
    /\ plan = <<>>
    /\ skipped = FALSE
    /\ cost = 0
    /\ call = ""
    /\ ret = NoReturn
    /\ pc = "start"
    /\ wpc = NoWorkers
    /\ wbuf = NoWorkers
    /\ werr = NoWorkers
    /\ wsent = NoWorkers

Returned(name, res) ==
    /\ call' = name
    /\ plan' = res.sels
    /\ Errs' = Errs \o res.errs
    /\ ret' = [via |-> res.via, at |-> res.at]
    /\ pc' = IF res.panic THEN "panicked" ELSE "returned"
    /\ UNCHANGED <<e, sels, Vars, DisableIntrospection, Mu, skipped, cost,
                   wpc, wbuf, werr, wsent>>

\* ApplyOperation on the query entry point
CallApplyOperation ==
    /\ pc = "start"
    /\ e = "Query"
    /\ Returned("ApplyOperation", ApplyOperation(Request, sels))

\* applySelectionSet on the object a field or a type assertion resolves to
CallApplySelectionSet ==
    /\ pc = "start"
    /\ e # "Query"
    /\ Returned("applySelectionSet", applySelectionSet(Request, e, sels))

\* the fragment a selection stands for
FragmentOf(sel) ==
    IF sel.kind = "InlineFragment"
    THEN [On |-> sel.On, Selections |-> sel.Selections]
    ELSE DocFragments[sel.Name]

\* applyFragment on a fragment of the query
CallApplyFragment ==
    /\ pc = "start"
    /\ Len(sels) = 1
    /\ sels[1].kind # "Field"
    /\ Returned("applyFragment", applyFragment(Request, e, FragmentOf(sels[1])))

\* skipByDirective on the directives of the first selection
CallSkipByDirective ==
    /\ pc = "start"
    /\ LET d == skipByDirective(Request, sels[1].Directives)
       IN  /\ skipped' = d.skip
           /\ Errs' = Errs \o d.errs
    /\ call' = "skipByDirective"
    /\ pc' = "returned"
    /\ UNCHANGED <<e, sels, Vars, DisableIntrospection, Mu, plan, cost, ret,
                   wpc, wbuf, werr, wsent>>

Init == InitSel

Next ==
    \/ CallApplyOperation
    \/ CallApplySelectionSet
    \/ CallApplyFragment
    \/ CallSkipByDirective

Spec == Init /\ [][Next]_vars

(***************************************************************************)
(* The error sink under the executor's workers                             *)
(***************************************************************************)
\* workers appending to the sink at once
NumWorkers == 2
\* errors a worker reports, one AddError call each
MaxReports == 2

Workers == 1..NumWorkers

\* the k-th *errors.QueryError reported by w; 0 is the resolving call stack
ErrorOf(w, k) == <<w, k>>

InitSink ==
    /\ e = "Query"
    /\ sels = <<>>
    /\ Vars = [v \in {"skip"} |-> NullV]
    /\ DisableIntrospection = FALSE
    /\ Errs \in {<<>>, <<ErrorOf(0, 1)>>, <<ErrorOf(0, 1), ErrorOf(0, 2)>>}
    /\ Mu = 0
    /\ plan = <<>>
    /\ skipped = FALSE
    /\ cost = 0
    /\ call = "AddError"
    /\ ret = NoReturn
    /\ pc = "executing"
    /\ wpc = [w \in Workers |-> "idle"]
    /\ wbuf = [w \in Workers |-> <<>>]
    /\ \E n \in [Workers -> 0..MaxReports] :
           werr = [w \in Workers |-> [k \in 1..n[w] |-> ErrorOf(w, k)]]
    /\ wsent = [w \in Workers |-> <<>>]

\* a lock that lets everyone in
MuIgnored(w) == TRUE

\* r.Mu.Lock() succeeds when no one holds the mutex
MuFree(w) == Mu = 0

SinkUnchanged == UNCHANGED <<e, sels, Vars, DisableIntrospection, plan, skipped,
                             cost, call, ret, pc>>

\* AddError(err): r.Mu.Lock()
Lock(w) ==
    /\ wpc[w] = "idle"
    /\ werr[w] # <<>>
    /\ MuFree(w)
    /\ Mu' = w
    /\ wpc' = [wpc EXCEPT ![w] = "locked"]
    /\ wsent' = [wsent EXCEPT ![w] = Append(@, werr[w][1])]
    /\ UNCHANGED <<Errs, wbuf, werr>>
    /\ SinkUnchanged

\* append reads the slice r.Errs
AppendRead(w) ==
    /\ wpc[w] = "locked"
    /\ wbuf' = [wbuf EXCEPT ![w] = Errs]
    /\ wpc' = [wpc EXCEPT ![w] = "read"]
    /\ UNCHANGED <<Errs, Mu, werr, wsent>>
    /\ SinkUnchanged

\* r.Errs = append(...) stores the extended slice
AppendWrite(w) ==
    /\ wpc[w] = "read"
    /\ Errs' = Append(wbuf[w], werr[w][1])
    /\ wpc' = [wpc EXCEPT ![w] = "written"]
    /\ UNCHANGED <<Mu, wbuf, werr, wsent>>
    /\ SinkUnchanged

\* r.Mu.Unlock(), and AddError returns
Unlock(w) ==
    /\ wpc[w] = "written"
    /\ Mu' = 0
    /\ wpc' = [wpc EXCEPT ![w] = "idle"]
    /\ werr' = [werr EXCEPT ![w] = Tail(@)]
    /\ UNCHANGED <<Errs, wbuf, wsent>>
    /\ SinkUnchanged

NextSink ==
    \E w \in Workers : Lock(w) \/ AppendRead(w) \/ AppendWrite(w) \/ Unlock(w)

SpecSink == InitSink /\ [][NextSink]_vars

(***************************************************************************)
(* Cost estimation                                                         *)
(***************************************************************************)
\* @cost(complexity: n) as the schemas of the cost tests declare it
Declared ==
    [Query |-> [characters |-> 1],
     Friend |-> [name |-> 1],
     Enemy |-> [weapon |-> 9],
     FriendOrEnemy |-> <<>>,
     FriendConnection |-> [totalCount |-> 1],
     Character |-> [id |-> 1, name |-> 2, bestFriends |-> 3],
     __Schema |-> <<>>,
     __Type |-> <<>>,
     SimpleQuery |-> [characters |-> 1],
     SimpleCharacter |-> <<>>]

\* the fields that declare @cost(multipliers: [...])
MultiplierFields == {"friends", "bestFriends"}

\* @cost(multipliers: [...]) of a field
Multipliers(t, f) ==
    IF t = "Character" /\ f = "friends" THEN {"first", "last"}
    ELSE IF t = "Character" /\ f = "bestFriends" THEN {"first"}
    ELSE {}

\* @cost(useMultipliers: ...) of a field, true unless declared false
UseMultipliers(t, f) == ~(t = "FriendConnection" /\ f = "totalCount")

\* the complexity of the first interface of t, from the j-th on, that declares
\* one for f; 1 where none does
RECURSIVE InheritedComplexity(_, _, _)
InheritedComplexity(t, f, j) ==
    IF j > Len(Interfaces[t]) THEN 1
    ELSE IF f \in DOMAIN Declared[Interfaces[t][j]]
    THEN Declared[Interfaces[t][j]][f]
    ELSE InheritedComplexity(t, f, j + 1)

\* the declared complexity alone, nothing where the field declares none
ComplexityDeclaredOnly(t, f) ==
    IF f \in DOMAIN Declared[t] THEN Declared[t][f] ELSE 0

\* base complexity of a field: its own annotation, else that of an interface
\* the type implements, else 1; a @cost that declares multipliers and no
\* complexity adds nothing of its own, which is what TestCost/sums up
\* multipliers expects of friends
Complexity(t, f) ==
    IF f \in DOMAIN Declared[t] THEN Declared[t][f]
    ELSE IF Multipliers(t, f) # {} THEN 0
    ELSE InheritedComplexity(t, f, 1)

\* the type the children of a field are estimated against
ValueType(x) ==
    IF x.kind = "List" THEN x.elem.name
    ELSE IF x.kind = "Object" THEN x.name
    ELSE NoType

\* the multiplier arguments supplied, multiplied
RECURSIVE MultiplierProduct(_, _, _, _)
MultiplierProduct(args, names, vs, i) ==
    IF i > Len(args) THEN 1
    ELSE (IF args[i].Name \in names THEN Value(args[i].Value, vs).n ELSE 1)
             * MultiplierProduct(args, names, vs, i + 1)

\* the multiplier arguments supplied, added up
RECURSIVE MultiplierSum(_, _, _, _)
MultiplierSum(args, names, vs, i) ==
    IF i > Len(args) THEN 0
    ELSE (IF args[i].Name \in names THEN Value(args[i].Value, vs).n ELSE 0)
             + MultiplierSum(args, names, vs, i + 1)

\* the children of a field left as they are
ScaleOne(r, t, sel) == 1

\* what the children of a field are scaled by: the sum of the multiplier
\* arguments the query supplies, 1 where it supplies none
ScaleOf(r, t, sel) ==
    IF \E i \in DOMAIN sel.Arguments : sel.Arguments[i].Name \in Multipliers(t, sel.Name)
    THEN MultiplierSum(sel.Arguments, Multipliers(t, sel.Name), r.Vars, 1)
    ELSE 1

\* nothing is excluded
NeverExcluded(r, sel) == FALSE

\* the directives of a selection exclude it
Excluded(r, sel) == skipByDirective(r, sel.Directives).skip

\* sibling branches added up
SumCost(a, b) == a + b

\* the worst of sibling branches
MaxCost(a, b) == IF a > b THEN a ELSE b

\* estimateCost: the fields and the trivial fragments of a set add up in
\* total, the fragments that narrow the type compete in branch; scale is what
\* the enclosing field multiplies its children by
RECURSIVE estimateCost(_, _, _), estimateCostFrom(_, _, _, _, _, _, _)
estimateCost(r, ss, t) == estimateCostFrom(r, ss, t, 1, 0, 0, 1)

estimateCostFrom(r, ss, t, i, total, branch, scale) ==
    IF i > Len(ss) THEN total + branch
    ELSE
    LET sel == ss[i]
    IN
    IF Excluded(r, sel)
    THEN estimateCostFrom(r, ss, t, i + 1, total, branch, scale)
    ELSE IF sel.kind = "Field"
    THEN LET c == Complexity(t, sel.Name)
                    + estimateCostFrom(r, sel.Selections,
                          ValueType(Fields[t][sel.Name].ValueExec), 1, 0, 0,
                          ScaleOf(r, t, sel))
         IN  estimateCostFrom(r, ss, t, i + 1,
                 total + (IF UseMultipliers(t, sel.Name) THEN scale * c ELSE c),
                 branch, scale)
    ELSE LET frag == FragmentOf(sel)
         IN  IF frag.On = "" \/ frag.On = t
             THEN estimateCostFrom(r, ss, t, i + 1,
                      total + estimateCostFrom(r, frag.Selections, t, 1, 0, 0, scale),
                      branch, scale)
             ELSE estimateCostFrom(r, ss, t, i + 1, total,
                      MaxCost(branch,
                          estimateCostFrom(r, frag.Selections, frag.On, 1, 0, 0, scale)),
                      scale)

\* the queries the estimate is explored on: user fields, fragments, integer
\* arguments and directives whose conditions are booleans. nodes is left out:
\* the tests do not settle what it counts.
RECURSIVE CostInput(_)
CostInput(ss) ==
    \A i \in DOMAIN ss :
        /\ ss[i].kind = "Field" =>
               /\ ss[i].Name \notin {"__typename", "__schema", "__type", "nodes"}
               /\ \A j \in DOMAIN ss[i].Arguments : ss[i].Arguments[j].Value.t = "Int"
        /\ CostInput(ss[i].Selections)

CostArgValues == {IntV(2), IntV(3)}

\* friends and bestFriends with the multiplier arguments a query can supply
MultiplierSels(t) ==
    IF t # "Character" THEN {}
    ELSE {Field("friends", "friends", args, <<>>, <<Leaf("name")>>) :
             args \in {<<Argument("last", v)>> : v \in CostArgValues}
                      \cup {<<Argument("first", v), Argument("last", w)>> :
                               v \in CostArgValues, w \in CostArgValues}}
         \cup {Field("bestFriends", "bestFriends", <<Argument("first", v)>>, <<>>,
                     <<Leaf("totalCount")>>) : v \in CostArgValues}

CostPool(t) == {x \in Pool(t) : CostInput(<<x>>)} \cup MultiplierSels(t)

CostVarValues == {BoolV(TRUE), BoolV(FALSE)}

\* { characters { ... on Character { friends(first: a, last: b) { name } } } }
FriendsQuery(args) ==
    <<With(Leaf("characters"), <<>>,
           <<InlineFragment("Character", <<>>,
                 <<Field("friends", "friends", args, <<>>, <<Leaf("name")>>)>>)>>)>>

\* TestCost/sums up multipliers
SumsUpQuery == FriendsQuery(<<Argument("first", IntV(5)), Argument("last", IntV(10))>>)

\* TestCost/correctly fails query if cost is too high
TooHighQuery == FriendsQuery(<<Argument("first", IntV(100))>>)

\* friends(first: 5) { name }
FirstFiveQuery ==
    <<Field("friends", "friends", <<Argument("first", IntV(5))>>, <<>>, <<Leaf("name")>>)>>

\* TestCost/off: characters { id name friends { friends { friends { id name } } } }
OffQuery ==
    <<With(Leaf("characters"), <<>>,
           <<Leaf("id"), Leaf("name"),
             With(Leaf("friends"), <<>>,
                  <<With(Leaf("friends"), <<>>,
                         <<With(Leaf("friends"), <<>>,
                                <<Leaf("id"), Leaf("name")>>)>>)>>)>>)>>

\* TestCost/maxDepth: characters { id name friends { id name } }
MaxDepthQuery ==
    <<With(Leaf("characters"), <<>>,
           <<Leaf("id"), Leaf("name"),
             With(Leaf("friends"), <<>>, <<Leaf("id"), Leaf("name")>>)>>)>>

InitCost ==
    /\ \/ /\ e \in UserTypes \cup SimpleTypes
          /\ \/ \E n \in 1..MaxSels : sels \in [1..n -> CostPool(e)]
             \/ \E x \in Nested(e) : CostInput(<<x>>) /\ sels = <<x>>
             \/ \E x \in CostPool(e), ds \in DirectiveLists, pre \in CostPool(e) :
                    sels = <<pre, With(x, ds, x.Selections)>>
       \/ e = "Query" /\ sels \in {SumsUpQuery, TooHighQuery}
       \/ e = "Character" /\ sels = FirstFiveQuery
       \/ e = "SimpleQuery" /\ sels \in {OffQuery, MaxDepthQuery}
    /\ Vars \in [{"skip"} -> CostVarValues]
    /\ (~UsesVariable(sels) => Vars.skip = BoolV(FALSE))
    /\ DisableIntrospection = FALSE
    /\ Errs = <<>>
    /\ Mu = 0
    /\ plan = <<>>
    /\ skipped = FALSE
    /\ cost = 0
    /\ call = ""
    /\ ret = NoReturn
    /\ pc = "start"
    /\ wpc = NoWorkers
    /\ wbuf = NoWorkers
    /\ werr = NoWorkers
    /\ wsent = NoWorkers

\* estimateCost on the selections of an operation or of a field
CallEstimateCost ==
    /\ pc = "start"
    /\ cost' = estimateCost(Request, sels, e)
    /\ call' = "estimateCost"
    /\ pc' = "returned"
    /\ UNCHANGED <<e, sels, Vars, DisableIntrospection, Errs, Mu, plan, skipped,
                   ret, wpc, wbuf, werr, wsent>>

NextCost == CallEstimateCost

SpecCost == InitCost /\ [][NextCost]_vars

(***************************************************************************)
(* Claims                                                                  *)
(***************************************************************************)
\* a call of the selection resolver on a selection set has returned
SetReturned == pc = "returned" /\ call \in {"ApplyOperation", "applySelectionSet"}

\* C1 (as claimed): when packing the arguments of an ordinary field fails,
\* exactly one error is added for it, the set returns none of the siblings
\* built before the failing field, and nothing after the field is processed.
C1_AllOrNothing ==
    (SetReturned /\ ret.via = "args") =>
        LET k == ret.at
            before == applySelectionSet(Request, e, SubSeq(sels, 1, k - 1))
            dirs == skipByDirective(Request, sels[k].Directives)
            upto == applySelectionSet(Request, e, SubSeq(sels, 1, k))
        IN  /\ Errs = (before.errs \o dirs.errs) \o <<ErrArgs>>
            /\ plan = upto.sels /\ Errs = upto.errs
            /\ plan = <<>>

\* what does hold of the code at an argument-packing failure: one error, and
\* the selections after the field are not processed
C1_ErrorAndStop ==
    (SetReturned /\ ret.via = "args") =>
        LET k == ret.at
            before == applySelectionSet(Request, e, SubSeq(sels, 1, k - 1))
            dirs == skipByDirective(Request, sels[k].Directives)
            upto == applySelectionSet(Request, e, SubSeq(sels, 1, k))
        IN  /\ Errs = (before.errs \o dirs.errs) \o <<ErrArgs>>
            /\ plan = upto.sels /\ Errs = upto.errs
            /\ plan = before.sels

RECURSIVE AssertionsUnique(_)
AssertionsUnique(ss) ==
    /\ \A i, j \in DOMAIN ss :
           (i < j /\ ss[i].kind = "TypeAssertion" /\ ss[j].kind = "TypeAssertion")
               => ss[i].Owner # ss[j].Owner
    /\ \A i \in DOMAIN ss : AssertionsUnique(ss[i].Sels)

\* C2 (as claimed): every selection sequence the resolver returns holds at
\* most one TypeAssertion per concrete object type, whatever fragments the
\* set combines.
C2_OneAssertionPerType == SetReturned => AssertionsUnique(plan)

\* the fragment handed to applyFragment has no type condition, or that of
\* the enclosing type
TrivialCall ==
    /\ pc \in {"returned", "panicked"}
    /\ call = "applyFragment"
    /\ FragmentOf(sels[1]).On \in {"", e}

\* C3 (as claimed): applyFragment on a fragment whose type condition is
\* absent or names the enclosing type completes normally and returns what
\* applySelectionSet returns for the fragment's selections on the enclosing
\* type, without a TypeAssertion around them.
C3_TrivialFragment ==
    TrivialCall =>
        LET direct == applySelectionSet(Request, e, FragmentOf(sels[1]).Selections)
        IN  /\ pc = "returned"
            /\ ~direct.panic
            /\ plan = direct.sels
            /\ Errs = direct.errs

\* packing the if of @skip was tried and failed
SkipPackFails(dirs) ==
    LET d == DirectiveGet(dirs, "skip", 1)
    IN  d.found /\ ~PackBool(Value(d.If, Vars)).ok

\* @skip excluded the node before @include was looked at
SkipExcludes(dirs) ==
    LET d == DirectiveGet(dirs, "skip", 1)
        p == PackBool(Value(d.If, Vars))
    IN  d.found /\ p.ok /\ p.b

\* packing the if of @include was tried and failed
IncludePackFails(dirs) ==
    LET d == DirectiveGet(dirs, "include", 1)
    IN  ~SkipExcludes(dirs) /\ d.found /\ ~PackBool(Value(d.If, Vars)).ok

IncludeExcludes(dirs) ==
    LET d == DirectiveGet(dirs, "include", 1)
        p == PackBool(Value(d.If, Vars))
    IN  ~SkipExcludes(dirs) /\ d.found /\ p.ok /\ ~p.b

DirectivePackFails(dirs) == SkipPackFails(dirs) \/ IncludePackFails(dirs)

\* the errors the failed packings leave on the sink
DirectiveErrors(dirs) ==
    (IF SkipPackFails(dirs) THEN <<ErrSkip>> ELSE <<>>)
        \o (IF IncludePackFails(dirs) THEN <<ErrInclude>> ELSE <<>>)

\* the selection set with the directives of its first selection removed
FirstUndirected == [sels EXCEPT ![1] = With(sels[1], <<>>, sels[1].Selections)]

\* C4 (as claimed): whenever packing the if of @skip or @include fails, an
\* error is recorded, skipByDirective returns false, and the node is resolved
\* and emitted as it is without the directives.
C4_FailureNeverExcludes ==
    /\ (pc = "returned" /\ call = "skipByDirective"
            /\ DirectivePackFails(sels[1].Directives))
        => (Errs = DirectiveErrors(sels[1].Directives) /\ skipped = FALSE)
    /\ (SetReturned /\ DirectivePackFails(sels[1].Directives))
        => LET plain == applySelectionSet(Request, e, FirstUndirected)
           IN  /\ plan = plain.sels
               /\ Errs = DirectiveErrors(sels[1].Directives) \o plain.errs

\* C4 (amended): whenever packing the if of @skip or @include fails, an error
\* is recorded for it and the failing directive does not exclude the node;
\* skipByDirective returns true only when the other directive excludes it (a
\* failing @skip beside an @include whose if packs to false), and otherwise
\* returns false and the node is resolved and emitted as it is without the
\* directives.
C4_FailureDoesNotExclude ==
    /\ (pc = "returned" /\ call = "skipByDirective"
            /\ DirectivePackFails(sels[1].Directives))
        => /\ Errs = DirectiveErrors(sels[1].Directives)
           /\ skipped = IncludeExcludes(sels[1].Directives)
    /\ (SetReturned /\ DirectivePackFails(sels[1].Directives)
            /\ ~IncludeExcludes(sels[1].Directives))
        => LET plain == applySelectionSet(Request, e, FirstUndirected)
           IN  /\ plan = plain.sels
               /\ Errs = DirectiveErrors(sels[1].Directives) \o plain.errs

\* C4 witness: @skip failed to pack beside an @include that excludes, and
\* skipByDirective has returned true
C4_Witness ==
    /\ pc = "returned" /\ call = "skipByDirective"
    /\ SkipPackFails(sels[1].Directives)
    /\ IncludeExcludes(sels[1].Directives)
    /\ skipped
    /\ Errs = <<ErrSkip>>

\* the errors of one reporter in the sink, in order
RECURSIVE ReportedBy(_, _)
ReportedBy(errs, w) ==
    IF errs = <<>> THEN <<>>
    ELSE IF errs[1][1] = w THEN <<errs[1]>> \o ReportedBy(Tail(errs), w)
    ELSE ReportedBy(Tail(errs), w)

IsPrefix(a, b) == Len(a) <= Len(b) /\ SubSeq(b, 1, Len(a)) = a

\* how many errors the workers 1..n have passed to AddError
RECURSIVE SentUpTo(_)
SentUpTo(n) == IF n = 0 THEN 0 ELSE Len(wsent[n]) + SentUpTo(n - 1)

InAppend(w) == wpc[w] \in {"locked", "read", "written"}

\* at most one worker is inside the append, every error whose append was
\* stored is in the sink exactly once, and once all calls have returned the
\* sink holds what was there before and every error passed, nothing else
C5_SinkState ==
    /\ Cardinality({w \in Workers : InAppend(w)}) <= 1
    /\ \A w \in Workers :
           ReportedBy(Errs, w) =
               IF wpc[w] \in {"locked", "read"}
               THEN SubSeq(wsent[w], 1, Len(wsent[w]) - 1)
               ELSE wsent[w]
    /\ (\A w \in Workers : wpc[w] = "idle" /\ werr[w] = <<>>) =>
           Len(Errs) = Len(ReportedBy(Errs, 0)) + SentUpTo(NumWorkers)

\* C5: for any number of workers calling AddError in any interleaving, at most
\* one is inside the append at a time, after all calls return Errs holds every
\* error passed exactly once, and no AddError removes or reorders the errors
\* already in Errs.
C5_ConcurrentAppend == []C5_SinkState /\ [][IsPrefix(Errs, Errs')]_vars

\* C5 witness: both workers have reported all their errors, interleaved
C5_Witness ==
    /\ pc = "executing"
    /\ \A w \in Workers : wpc[w] = "idle" /\ werr[w] = <<>> /\ Len(wsent[w]) = 2
    /\ Len(Errs) = 2 + SentUpTo(NumWorkers)
    /\ Errs[4][1] # Errs[3][1]
    /\ Errs[5][1] # Errs[4][1]

\* what the i-th selection of the set yields when resolved by itself
Contribution(i) == applySelectionSet(Request, e, <<sels[i]>>).sels

RECURSIVE ContributionsUpTo(_)
ContributionsUpTo(k) ==
    IF k = 0 THEN <<>> ELSE ContributionsUpTo(k - 1) \o Contribution(k)

\* C6: the returned sequence keeps source order: it is what the selections
\* of the set yield, one after the other in the order of the query, with what
\* a fragment yields spliced in at the place of the fragment; all of them when
\* the loop ran to its end.
C6_SourceOrder ==
    SetReturned =>
        \E k \in 0..Len(sels) :
            /\ plan = ContributionsUpTo(k)
            /\ ret.via = "end" => k = Len(sels)

\* C6 witness: a fragment between two fields came out as a type assertion
\* between the two fields
C6_Witness ==
    /\ SetReturned /\ ret.via = "end"
    /\ Len(sels) = 3 /\ Len(plan) = 3
    /\ sels[1].kind = "Field" /\ plan[1].kind = "SchemaField"
    /\ sels[2].kind = "InlineFragment" /\ plan[2].kind = "TypeAssertion"
    /\ sels[3].kind = "Field" /\ plan[3].kind = "SchemaField"
    /\ plan[2].Sels # <<>>

\* a child selection is async: a SchemaField by its flag, a TypeAssertion by
\* its nested selections, a TypenameField never
RECURSIVE ChildAsync(_)
ChildAsync(ss) ==
    \E i \in DOMAIN ss :
        CASE ss[i].kind = "SchemaField" -> ss[i].Async
          [] ss[i].kind = "TypeAssertion" -> ChildAsync(ss[i].Sels)
          [] OTHER -> FALSE

RECURSIVE NoAsyncBelow(_)
NoAsyncBelow(ss) ==
    \A i \in DOMAIN ss :
        /\ ~(ss[i].kind = "SchemaField" /\ ss[i].Async)
        /\ NoAsyncBelow(ss[i].Sels)

Ordinary(x) == x.kind = "SchemaField" /\ x.Owner # "Meta"

RECURSIVE AsyncFlagsRight(_)
AsyncFlagsRight(ss) ==
    \A i \in DOMAIN ss :
        /\ Ordinary(ss[i]) =>
               LET fe == Fields[ss[i].Owner][ss[i].Name]
               IN  /\ ss[i].Async = (fe.HasContext \/ fe.Args # {} \/ fe.HasError
                                         \/ ChildAsync(ss[i].Sels))
                   /\ ~ss[i].Async => NoAsyncBelow(ss[i].Sels)
        /\ AsyncFlagsRight(ss[i].Sels)

\* C7: every ordinary SchemaField of a plan has Async = HasContext or has an
\* ArgsPacker or HasError or some child selection is async; so below a
\* SchemaField that is not async no SchemaField is async.
C7_AsyncFlag == SetReturned => AsyncFlagsRight(plan)

\* C7 witness: characters, whose resolver takes no context, no arguments and
\* returns no error, is async only through the weapon of a type assertion
C7_Witness ==
    /\ SetReturned /\ e = "Query" /\ Len(plan) = 1
    /\ plan[1].Name = "characters" /\ plan[1].Async
    /\ Len(plan[1].Sels) = 2
    /\ plan[1].Sels[1].kind = "TypenameField"
    /\ plan[1].Sels[2].kind = "TypeAssertion"
    /\ plan[1].Sels[2].Sels[1].Name = "weapon"

IsMeta(sel) == sel.kind = "Field" /\ sel.Name \in {"__typename", "__schema", "__type"}

\* the query with its meta-fields taken out, at every depth
RECURSIVE WithoutMeta(_)
WithoutMeta(ss) ==
    IF ss = <<>> THEN <<>>
    ELSE LET h == Head(ss)
             r == WithoutMeta(Tail(ss))
         IN  IF IsMeta(h) THEN r
             ELSE <<With(h, h.Directives, WithoutMeta(h.Selections))>> \o r

\* no TypenameField and no SchemaField of a meta-field, at any depth
RECURSIVE NoMeta(_)
NoMeta(ss) ==
    \A i \in DOMAIN ss :
        /\ ss[i].kind # "TypenameField"
        /\ ~(ss[i].kind = "SchemaField" /\ ss[i].Owner = "Meta")
        /\ NoMeta(ss[i].Sels)

\* the conditions of the directives on the meta-fields all pack
RECURSIVE MetaDirectivesPack(_)
MetaDirectivesPack(ss) ==
    \A i \in DOMAIN ss :
        /\ IsMeta(ss[i]) => skipByDirective(Request, ss[i].Directives).errs = <<>>
        /\ MetaDirectivesPack(ss[i].Selections)

OperationReturned == pc = "returned" /\ call = "ApplyOperation"

\* C8 (as claimed): with introspection disabled the plan of ApplyOperation
\* has no TypenameField and no SchemaField for __schema or __type at any
\* depth, and plan and recorded errors are those of the query without its
\* meta-fields: a meta-field contributes nothing and records no error.
C8_MetaSuppressed ==
    (OperationReturned /\ DisableIntrospection) =>
        LET o == ApplyOperation(Request, WithoutMeta(sels))
        IN  /\ NoMeta(plan)
            /\ plan = o.sels
            /\ Errs = o.errs

\* C8 (amended): with introspection disabled the plan of ApplyOperation has
\* no TypenameField and no SchemaField for __schema or __type at any depth and
\* is the plan of the query without its meta-fields; the recorded errors are
\* those of the query without its meta-fields whenever the conditions of the
\* directives on the meta-fields pack.
C8_MetaSuppressedButDirectives ==
    (OperationReturned /\ DisableIntrospection) =>
        LET o == ApplyOperation(Request, WithoutMeta(sels))
        IN  /\ NoMeta(plan)
            /\ plan = o.sels
            /\ MetaDirectivesPack(sels) => Errs = o.errs

\* C8 witness: __typename beside characters and __typename below characters
\* are both left out of the plan
C8_Witness ==
    /\ OperationReturned /\ DisableIntrospection
    /\ Len(sels) = 2
    /\ sels[1].Name = "__typename" /\ sels[1].Directives = <<>>
    /\ sels[2].Name = "characters" /\ sels[2].Selections # <<>>
    /\ Len(plan) = 1 /\ plan[1].Name = "characters" /\ plan[1].Sels = <<>>

RemoveAt(ss, i) == SubSeq(ss, 1, i - 1) \o SubSeq(ss, i + 1, Len(ss))

\* a __type field that is not excluded and names a type the schema lacks
UnknownType(sel) ==
    /\ sel.kind = "Field" /\ sel.Name = "__type"
    /\ ~skipByDirective(Request, sel.Directives).skip
    /\ LET p == PackString(Value(MustGet(sel.Arguments, "name", 1), Vars))
       IN  p.ok /\ p.s \notin TypeNames

\* C9 (as claimed): with introspection enabled a __type field naming a type
\* the schema lacks is dropped silently: plan and recorded errors are those
\* of the selection set without that field.
C9_UnknownTypeDropped ==
    (SetReturned /\ ~DisableIntrospection) =>
        \A i \in DOMAIN sels :
            UnknownType(sels[i]) =>
                LET o == applySelectionSet(Request, e, RemoveAt(sels, i))
                IN  plan = o.sels /\ Errs = o.errs

CostReturned == pc = "returned" /\ call = "estimateCost"

\* a fragment that narrows the type of the set
IsBranch(sel) == sel.kind # "Field" /\ FragmentOf(sel).On \notin {"", e}

\* what the i-th selection of the set costs by itself
CostOf(i) == estimateCost(Request, <<sels[i]>>, e)

RECURSIVE SumOutsideBranches(_)
SumOutsideBranches(k) ==
    IF k = 0 THEN 0
    ELSE SumOutsideBranches(k - 1) + (IF IsBranch(sels[k]) THEN 0 ELSE CostOf(k))

MaxOf(S) == IF S = {} THEN 0 ELSE CHOOSE m \in S : \A x \in S : x <= m

\* { characters { ... on Friend { name } ... on Enemy { weapon } } }
UnionQuery ==
    <<With(Leaf("characters"), <<>>,
           <<InlineFragment("Friend", <<>>, <<Leaf("name")>>),
             InlineFragment("Enemy", <<>>, <<Leaf("weapon")>>)>>)>>

MultiplierCall ==
    /\ CostReturned /\ Len(sels) = 1
    /\ sels[1].kind = "Field" /\ Multipliers(e, sels[1].Name) # {}
    /\ sels[1].Directives = <<>>
    /\ \A i \in DOMAIN sels[1].Selections :
           /\ sels[1].Selections[i].kind = "Field"
           /\ sels[1].Selections[i].Directives = <<>>

ChildType == ValueType(Fields[e][sels[1].Name].ValueExec)

\* the multiplier arguments the query supplies, by position
SuppliedAt == {i \in DOMAIN sels[1].Arguments :
                  sels[1].Arguments[i].Name \in Multipliers(e, sels[1].Name)}

SuppliedValue(i) == Value(sels[1].Arguments[i].Value, Vars).n

RECURSIVE SuppliedTotal(_)
SuppliedTotal(k) ==
    IF k = 0 THEN 0
    ELSE SuppliedTotal(k - 1) + (IF k \in SuppliedAt THEN SuppliedValue(k) ELSE 0)

RECURSIVE SuppliedProduct(_)
SuppliedProduct(k) ==
    IF k = 0 THEN 1
    ELSE SuppliedProduct(k - 1) * (IF k \in SuppliedAt THEN SuppliedValue(k) ELSE 1)

\* the children of the field that take part in scaling, and those declared
\* useMultipliers: false
RECURSIVE ChildrenWhere(_, _)
ChildrenWhere(k, scaled) ==
    IF k = 0 THEN <<>>
    ELSE ChildrenWhere(k - 1, scaled)
             \o (IF UseMultipliers(ChildType, sels[1].Selections[k].Name) = scaled
                 THEN <<sels[1].Selections[k]>> ELSE <<>>)

ScaledChildrenCost ==
    estimateCost(Request, ChildrenWhere(Len(sels[1].Selections), TRUE), ChildType)

FlatChildrenCost ==
    estimateCost(Request, ChildrenWhere(Len(sels[1].Selections), FALSE), ChildType)

\* the complexity the field declares: 1 where it declares none, as claimed,
\* and nothing where it declares none, as estimated
ClaimedBase == IF sels[1].Name \in DOMAIN Declared[e] THEN Declared[e][sels[1].Name] ELSE 1
OwnDeclared == IF sels[1].Name \in DOMAIN Declared[e] THEN Declared[e][sels[1].Name] ELSE 0

\* C11 (as claimed): a field that declares multipliers contributes, beside
\* its children, its base complexity (1 where none is declared) times the
\* product of the multiplier arguments supplied, an absent one counting 1.
C11_OwnTimesProduct ==
    MultiplierCall =>
        cost = ClaimedBase * SuppliedProduct(Len(sels[1].Arguments))
                 + estimateCost(Request, sels[1].Selections, ChildType)

\* C11 (amended): a field that declares multipliers contributes its declared
\* complexity unscaled (nothing where it declares none) and the cost of its
\* children, scaled by the multiplier argument supplied (by 1 where none is
\* supplied) except for the children declared useMultipliers: false; so
\* friends(first: 5) { name } with name costing 1 contributes 5.
C11_ChildrenTimesSupplied ==
    /\ (MultiplierCall /\ Cardinality(SuppliedAt) <= 1) =>
           cost = OwnDeclared
                    + (IF SuppliedAt = {} THEN 1
                       ELSE SuppliedValue(CHOOSE i \in SuppliedAt : TRUE))
                          * ScaledChildrenCost
                    + FlatChildrenCost
    /\ (CostReturned /\ e = "Character" /\ sels = FirstFiveQuery) => cost = 5

\* C11 witness: friends(first: 5) { name } on Character is estimated at 5
C11_Witness ==
    /\ MultiplierCall /\ e = "Character" /\ sels = FirstFiveQuery
    /\ SuppliedAt = {1} /\ SuppliedValue(1) = 5
    /\ cost = 5

\* C12: several multiplier arguments supplied are added together and the sum
\* scales the cost of the children of the field; a child declared
\* useMultipliers: false counts its flat complexity; characters { ... on
\* Character { friends(first: 5, last: 10) { name } } } is estimated at 16, and
\* with first: 100 alone at 101.
C12_SumOfMultipliers ==
    /\ (MultiplierCall /\ Cardinality(SuppliedAt) >= 2) =>
           cost = OwnDeclared
                    + SuppliedTotal(Len(sels[1].Arguments)) * ScaledChildrenCost
                    + FlatChildrenCost
    /\ (MultiplierCall /\ sels[1].Selections # <<>>
           /\ \A i \in DOMAIN sels[1].Selections :
                  ~UseMultipliers(ChildType, sels[1].Selections[i].Name)) =>
           cost = OwnDeclared + estimateCost(Request, sels[1].Selections, ChildType)
    /\ (CostReturned /\ e = "Query" /\ sels = SumsUpQuery) => cost = 16
    /\ (CostReturned /\ e = "Query" /\ sels = TooHighQuery) => cost = 101

\* C12 witness: the query of the test is estimated at 1 * (5 + 10) + 1
C12_Witness ==
    /\ CostReturned /\ e = "Query" /\ sels = SumsUpQuery
    /\ cost = 16

\* fields only, without directives and arguments, at every depth
RECURSIVE Plain(_)
Plain(ss) ==
    \A i \in DOMAIN ss :
        /\ ss[i].kind = "Field"
        /\ ss[i].Directives = <<>>
        /\ ss[i].Arguments = <<>>
        /\ Plain(ss[i].Selections)

\* the complexity a field declares, or the first interface of its type that
\* has the field declares, else 1 (nothing for a @cost with multipliers only)
BaseOf(t, f) ==
    IF f \in DOMAIN Declared[t] THEN Declared[t][f]
    ELSE IF Multipliers(t, f) # {} THEN 0
    ELSE LET js == {j \in DOMAIN Interfaces[t] : f \in DOMAIN Declared[Interfaces[t][j]]}
         IN  IF js = {} THEN 1
             ELSE Declared[Interfaces[t][CHOOSE j \in js : \A k \in js : j <= k]][f]

RECURSIVE BaseSum(_, _)
BaseSum(t, ss) ==
    IF ss = <<>> THEN 0
    ELSE BaseOf(t, Head(ss).Name)
           + BaseSum(ValueType(Fields[t][Head(ss).Name].ValueExec), Head(ss).Selections)
           + BaseSum(t, Tail(ss))

ExcludedByDirectives(sel) ==
    SkipExcludes(sel.Directives) \/ IncludeExcludes(sel.Directives)

\* C14: a field or fragment that its directives exclude adds nothing to the
\* estimate, children included: the estimate is that of the query without it.
C14_SkipEquivalence ==
    CostReturned =>
        \A i \in DOMAIN sels :
            ExcludedByDirectives(sels[i]) =>
                cost = estimateCost(Request, RemoveAt(sels, i), e)

\* C14 witness: an excluded field with a child beside a field that costs
C14_Witness ==
    /\ CostReturned /\ Len(sels) = 2
    /\ ExcludedByDirectives(sels[2])
    /\ sels[2].kind = "Field" /\ sels[2].Selections # <<>>
    /\ ~ExcludedByDirectives(sels[1])
    /\ cost = CostOf(1) /\ cost > 0

\* applyFragment was called on a fragment whose type condition is neither
\* absent nor the enclosing type
NarrowingCall ==
    /\ pc \in {"returned", "panicked"}
    /\ call = "applyFragment"
    /\ FragmentOf(sels[1]).On \notin {"", e}

\* the concrete objects a type stands for: itself, or its possible types
PossibleOf(t) == IF TypeKind[t] = "Object" THEN {t} ELSE Range(PossibleTypes[t])

\* the plan is one TypeAssertion for each type of targets and nothing else
AssertsExactly(targets) ==
    /\ Len(plan) = Cardinality(targets)
    /\ \A i \in DOMAIN plan : plan[i].kind = "TypeAssertion"
    /\ {plan[i].Owner : i \in DOMAIN plan} = targets

\* C15 (as claimed): for a fragment on an Object or a Union other than the
\* enclosing type, applyFragment returns exactly one TypeAssertion for each
\* concrete type that both the enclosing type and the fragment's type stand
\* for, so a fragment on a Union gives one per member that is a possible type
\* of the enclosing type.
C15_OnePerCommonType ==
    (NarrowingCall /\ TypeKind[FragmentOf(sels[1]).On] \in {"Object", "Union"}) =>
        /\ pc = "returned"
        /\ AssertsExactly(PossibleOf(e) \cap PossibleOf(FragmentOf(sels[1]).On))

\* C16 (as claimed): for a fragment on an Interface other than the enclosing
\* type, applyFragment returns exactly one TypeAssertion for each concrete
\* type that implements the interface and is a possible type of the enclosing
\* type, none for other implementers, each with the fragment's selections
\* resolved against that concrete type.
C16_OnePerImplementer ==
    (NarrowingCall /\ TypeKind[FragmentOf(sels[1]).On] = "Interface") =>
        /\ pc = "returned"
        /\ AssertsExactly({t \in PossibleOf(e) :
                              FragmentOf(sels[1]).On \in Range(Interfaces[t])})
        /\ \A i \in DOMAIN plan :
               plan[i].Sels = applySelectionSet(Request, plan[i].Owner,
                                                FragmentOf(sels[1]).Selections).sels

\* an @include is present and its condition packs to false
IncludeFalse(dirs) ==
    LET d == DirectiveGet(dirs, "include", 1)
        p == PackBool(Value(d.If, Vars))
    IN  d.found /\ p.ok /\ ~p.b

\* C17: skipByDirective returns true exactly when @skip is present and its
\* condition packs to true, or @include is present and its condition packs to
\* false; a @skip that does not exclude never keeps @include from being
\* looked at.
C17_BothDirectives ==
    (pc = "returned" /\ call = "skipByDirective") =>
        skipped = (SkipExcludes(sels[1].Directives) \/ IncludeFalse(sels[1].Directives))

\* C17 witness: @skip(if: false) beside @include(if: false) is excluded
C17_Witness ==
    /\ pc = "returned" /\ call = "skipByDirective"
    /\ DirectiveGet(sels[1].Directives, "skip", 1).found
    /\ ~SkipPackFails(sels[1].Directives)
    /\ ~SkipExcludes(sels[1].Directives)
    /\ IncludeFalse(sels[1].Directives)
    /\ skipped
    /\ Errs = <<>>

====
